---- MODULE Spec2Model ----
(***************************************************************************)
(* BB84 quantum key distribution engine (src/backend/bb84_engine.py).      *)
(*                                                                         *)
(* One call of BB84Engine.simulate is modelled as a state machine: the     *)
(* backend dispatch, the three list draws, one step per iteration of the   *)
(* photon loop (Qiskit path or classical path) and _process_results.       *)
(* Spec, SpecRepeat and SpecNoEve take _process_results as one step;       *)
(* SpecSift takes its key-extraction loop one iteration at a time.  Both   *)
(* are built from the same loop body, SiftIter.                            *)
(*                                                                         *)
(* Probabilities and metrics are exact fractions <<n, d>> with d > 0.      *)
(* Python's None is NoBit in a list of bits and "None" in a list of bases. *)
(* The params dict is taken to supply all four keys.                       *)
(***************************************************************************)
EXTENDS Integers, Sequences, FiniteSets

VARIABLES
    num_qubits,         \* params['numQubits']
    include_eve,        \* params['includeEve']
    eve_pct,            \* params['eveInterceptionRate'] (a percentage)
    noise_level,        \* params['noiseLevel'] (a fraction)
    qiskit,             \* QISKIT_AVAILABLE, fixed when the module is imported
    pc,                 \* position in simulate
    backend,            \* the path simulate dispatched to
    alice_bits, alice_bases, bob_bases,
    eve_interceptions, eve_bits, eve_bases, bob_bits,
    matching_bases, final_key, matching_count, error_count,
    idx,                \* loop variable i of the key-extraction loop
    error_rate, transmission_efficiency, quantum_fidelity,
    error,              \* the exception that ended the call, "none" if none
    rng_draws,          \* values drawn so far from the global random module
    calls,              \* simulate calls started in this process
    prev                \* <<result>> of the previous call, <<>> if none

vars == <<num_qubits, include_eve, eve_pct, noise_level, qiskit, pc, backend,
          alice_bits, alice_bases, bob_bases, eve_interceptions, eve_bits,
          eve_bases, bob_bits, matching_bases, final_key, matching_count,
          error_count, idx, error_rate, transmission_efficiency,
          quantum_fidelity, error, rng_draws, calls, prev>>

params == <<num_qubits, include_eve, eve_pct, noise_level, qiskit>>

lists == <<alice_bits, alice_bases, bob_bases>>

photons == <<eve_interceptions, eve_bits, eve_bases, bob_bits>>

sifting == <<matching_bases, final_key, matching_count, error_count, idx>>

metrics == <<error_rate, transmission_efficiency, quantum_fidelity>>

(***************************************************************************)
(* Bounds of the model.                                                    *)
(***************************************************************************)
MaxQubits == 2

RepeatQubits == 1

MaxCalls == 2

ScenarioQubits == 4

\* numQubits is explored this far on either side of the limit of line 49
DispatchSpan == 2

(***************************************************************************)
(* Program constants.                                                      *)
(***************************************************************************)
PercentScale == 100

QubitLimit == 50

DefaultEvePct == 30

NoBit == -1

Bits == {0, 1}

Bases == {"Z", "X"}

(***************************************************************************)
(* Exact fractions.                                                        *)
(***************************************************************************)
Frac(n, d) == <<n, d>>

Zero == Frac(0, 1)

One == Frac(1, 1)

Less(a, b) == a[1] * b[2] < b[1] * a[2]

FracEq(a, b) == a[1] * b[2] = b[1] * a[2]

FracLeq(a, b) == a[1] * b[2] <= b[1] * a[2]

OneMinus(a) == Frac(a[2] - a[1], a[2])

\* The values random.random() can return, all in [0, 1).
Samples == {Frac(0, 1), Frac(1, 2), Frac(99, 100)}

\* The parameter values explored: one below the nominal range, one inside
\* it and one above it.  noiseLevel = 0 is explored by SpecNoEve and SpecSift.
EvePcts == {-50, 50, 150}

NoiseLevels == {Frac(-1, 2), Frac(1, 2), Frac(3, 2)}

(***************************************************************************)
(* simulate, lines 44-52: the parameters and the dispatch.                 *)
(***************************************************************************)
\* eve_rate = params.get('eveInterceptionRate', 30) / 100
EveRate(pct) == Frac(pct, PercentScale)

\* Mutant: the limit of line 49 excluded.
UseQuantumBelowLimit(available, n) == available /\ n < QubitLimit

\* QISKIT_AVAILABLE and num_qubits <= 50
UseQuantum(available, n) == available /\ n <= QubitLimit

\* Mutant: range(1, num_qubits), the first photon skipped.
RangeLenOffByOne(n) == IF n > 1 THEN n - 1 ELSE 0

\* range(num_qubits): empty when num_qubits <= 0
RangeLen(n) == IF n > 0 THEN n ELSE 0

\* [random.randint(0, 1) for _ in range(n)], [random.choice(['Z','X']) ...]
ListsOf(S, n) == [1..RangeLen(n) -> S]

\* Mutant: the include_eve operand of the conjunction dropped.
InterceptsWithoutFlag(inc, rate) == {Less(r, rate) : r \in Samples}

\* include_eve and random.random() < eve_rate
Intercepts(inc, rate) == {inc /\ Less(r, rate) : r \in Samples}

(***************************************************************************)
(* _quantum_simulation: the one-qubit circuit.  A circuit built from x and *)
(* h on |0> is in one of |0>, |1>, |+>, |->; measure(0, 0) with shots=1    *)
(* reads the computational basis.                                          *)
(***************************************************************************)
XGate(q) == CASE q = "0" -> "1" [] q = "1" -> "0" [] OTHER -> q

HGate(q) == CASE q = "0" -> "+" [] q = "1" -> "-" [] q = "+" -> "0" [] OTHER -> "1"

Counts(q) == CASE q = "0" -> {0} [] q = "1" -> {1} [] OTHER -> {0, 1}

\* qc = QuantumCircuit(1, 1); if bit == 1: qc.x(0); if basis == 'X': qc.h(0)
Prepare(bit, basis) ==
    LET q1 == IF bit = 1 THEN XGate("0") ELSE "0"
    IN  IF basis = "X" THEN HGate(q1) ELSE q1

\* if basis == 'X': qc.h(0); qc.measure(0, 0); run with shots=1
Measure(q, basis) == Counts(IF basis = "X" THEN HGate(q) ELSE q)

\* One iteration of the photon loop of _quantum_simulation: every
\* (eve_intercepts, eve_basis, eve_bit, bob_bit) it can append.
\* noise_level is a parameter of the method and is never read.
QuantumPhoton(abit, abasis, bbasis, inc, rate, noise) ==
    LET qc == Prepare(abit, abasis)
        eve == Intercepts(inc, rate)
    IN  (IF TRUE \in eve
         THEN UNION { UNION { { [icpt |-> TRUE, ebasis |-> eb, ebit |-> e, bbit |-> b] :
                                  b \in Measure(Prepare(e, eb), bbasis) } :
                              e \in Measure(qc, eb) } :
                      eb \in Bases }
         ELSE {})
        \cup
        (IF FALSE \in eve
         THEN { [icpt |-> FALSE, ebasis |-> "None", ebit |-> NoBit, bbit |-> b] :
                  b \in Measure(qc, bbasis) }
         ELSE {})

(***************************************************************************)
(* _classical_simulation: the probability rules.                           *)
(***************************************************************************)
\* Mutant: Eve's bit drawn at random whatever her basis is.
ClassicalEveBitsAlwaysRandom(ebasis, abasis, abit) == Bits

\* eve_bit = alice_bits[i] if eve_basis == alice_bases[i] else randint(0, 1)
ClassicalEveBits(ebasis, abasis, abit) ==
    IF ebasis = abasis THEN {abit} ELSE Bits

\* Mutant: the noise test written <= instead of <.
ClassicalBobBitsLeq(bbasis, tbasis, tbit, noise) ==
    IF bbasis = tbasis
    THEN {IF FracLeq(r, noise) THEN 1 - tbit ELSE tbit : r \in Samples}
    ELSE Bits

\* Bob's measurement, lines 163-169
ClassicalBobBits(bbasis, tbasis, tbit, noise) ==
    IF bbasis = tbasis
    THEN {IF Less(r, noise) THEN 1 - tbit ELSE tbit : r \in Samples}
    ELSE Bits

\* Mutant: Bob measures Alice's photon even after an interception.
ClassicalPhotonFromAlice(abit, abasis, bbasis, inc, rate, noise) ==
    LET eve == Intercepts(inc, rate)
    IN  (IF TRUE \in eve
         THEN UNION { UNION { { [icpt |-> TRUE, ebasis |-> eb, ebit |-> e, bbit |-> b] :
                                  b \in ClassicalBobBits(bbasis, abasis, abit, noise) } :
                              e \in ClassicalEveBits(eb, abasis, abit) } :
                      eb \in Bases }
         ELSE {})
        \cup
        (IF FALSE \in eve
         THEN { [icpt |-> FALSE, ebasis |-> "None", ebit |-> NoBit, bbit |-> b] :
                  b \in ClassicalBobBits(bbasis, abasis, abit, noise) }
         ELSE {})

\* One iteration of the photon loop of _classical_simulation, lines 137-171.
ClassicalPhoton(abit, abasis, bbasis, inc, rate, noise) ==
    LET eve == Intercepts(inc, rate)
    IN  (IF TRUE \in eve
         THEN UNION { UNION { { [icpt |-> TRUE, ebasis |-> eb, ebit |-> e, bbit |-> b] :
                                  b \in ClassicalBobBits(bbasis, eb, e, noise) } :
                              e \in ClassicalEveBits(eb, abasis, abit) } :
                      eb \in Bases }
         ELSE {})
        \cup
        (IF FALSE \in eve
         THEN { [icpt |-> FALSE, ebasis |-> "None", ebit |-> NoBit, bbit |-> b] :
                  b \in ClassicalBobBits(bbasis, abasis, abit, noise) }
         ELSE {})

\* Values one iteration takes from the global random module.
ClassicalDraws(o, abasis, bbasis, inc) ==
    (IF inc THEN 1 ELSE 0)
    + (IF o.icpt THEN (IF o.ebasis = abasis THEN 1 ELSE 2) ELSE 0)
    + 1

QuantumDraws(o, inc) ==
    (IF inc THEN 1 ELSE 0) + (IF o.icpt THEN 1 ELSE 0)

(***************************************************************************)
(* _process_results and _calculate_fidelity.                               *)
(***************************************************************************)
\* [a == b for a, b in zip(alice_bases, bob_bases)]
MatchingBases(abases, bbases) ==
    [k \in 1..(IF Len(abases) < Len(bbases) THEN Len(abases) ELSE Len(bbases))
        |-> abases[k] = bbases[k]]

\* sum(matching_bases)
SumTrue(m) == Cardinality({k \in 1..Len(m) : m[k]})

\* sum(1 for i, matches in enumerate(matching_bases)
\*     if matches and alice_bits[i] == bob_bits[i])
CorrectMeasurements(abits, bbits, m) ==
    Cardinality({k \in 1..Len(m) : m[k] /\ abits[k] = bbits[k]})

\* final_key = []; matching_count = 0; error_count = 0
SiftStart == [final_key |-> <<>>, matching_count |-> 0, error_count |-> 0]

\* Mutant: the comparison of line 189 dropped, every sifted bit is kept.
SiftIterKeepsAll(s, matches, abit, bbit) ==
    IF matches
    THEN [s EXCEPT !.matching_count = @ + 1, !.final_key = Append(@, abit)]
    ELSE s

\* Mutant: line 193 dropped, an error is sifted and not counted.
SiftIterNoErrorCount(s, matches, abit, bbit) ==
    IF matches
    THEN IF abit = bbit
         THEN [s EXCEPT !.matching_count = @ + 1,
                        !.final_key = Append(@, abit)]
         ELSE [s EXCEPT !.matching_count = @ + 1]
    ELSE s

\* Mutant: the else of line 192 attached to "if matches".
SiftIterDanglingElse(s, matches, abit, bbit) ==
    IF matches
    THEN [s EXCEPT !.matching_count = @ + 1,
                   !.final_key = IF abit = bbit THEN Append(@, abit) ELSE @]
    ELSE [s EXCEPT !.error_count = @ + 1]

\* The body of the key-extraction loop, lines 188-193.
SiftIter(s, matches, abit, bbit) ==
    IF matches
    THEN IF abit = bbit
         THEN [s EXCEPT !.matching_count = @ + 1,
                        !.final_key = Append(@, abit)]
         ELSE [s EXCEPT !.matching_count = @ + 1, !.error_count = @ + 1]
    ELSE s

\* The loop of lines 187-193 over the first n indices.
RECURSIVE SiftLoop(_, _, _, _)
SiftLoop(abits, bbits, m, n) ==
    IF n = 0 THEN SiftStart
    ELSE SiftIter(SiftLoop(abits, bbits, m, n - 1), m[n], abits[n], bbits[n])

\* error_count / matching_count if matching_count > 0 else 0
ErrorRate(errors, matching) ==
    IF matching > 0 THEN Frac(errors, matching) ELSE Zero

\* Mutant: correct_measurements counted without "matches and".
CalculateFidelityAllBits(abits, bbits, m) ==
    IF SumTrue(m) = 0 THEN Zero
    ELSE Frac(Cardinality({k \in 1..Len(m) : abits[k] = bbits[k]}), SumTrue(m))

CalculateFidelity(abits, bbits, m) ==
    IF SumTrue(m) = 0 THEN Zero
    ELSE Frac(CorrectMeasurements(abits, bbits, m), SumTrue(m))

\* The BB84Result the call returns.
Result ==
    [alice_bits |-> alice_bits, alice_bases |-> alice_bases,
     bob_bits |-> bob_bits, bob_bases |-> bob_bases,
     eve_bits |-> eve_bits, eve_bases |-> eve_bases,
     eve_interceptions |-> eve_interceptions,
     matching_bases |-> matching_bases, final_key |-> final_key,
     error_rate |-> error_rate, include_eve |-> include_eve,
     transmission_efficiency |-> transmission_efficiency,
     quantum_fidelity |-> quantum_fidelity]

(***************************************************************************)
(* The state machine.                                                      *)
(***************************************************************************)
\* The locals of a call that has not started.
InitCall ==
    /\ pc = "simulate"
    /\ backend = "none"
    /\ alice_bits = <<>> /\ alice_bases = <<>> /\ bob_bases = <<>>
    /\ eve_interceptions = <<>> /\ eve_bits = <<>> /\ eve_bases = <<>>
    /\ bob_bits = <<>>
    /\ matching_bases = <<>> /\ final_key = <<>>
    /\ matching_count = 0 /\ error_count = 0 /\ idx = 0
    /\ error_rate = Zero /\ transmission_efficiency = Zero
    /\ quantum_fidelity = Zero
    /\ error = "none"
    /\ rng_draws = 0
    /\ calls = 1
    /\ prev = <<>>

Init ==
    /\ num_qubits \in {-1} \cup (0..MaxQubits)
    /\ include_eve \in BOOLEAN
    /\ eve_pct \in EvePcts
    /\ noise_level \in NoiseLevels
    /\ qiskit \in BOOLEAN
    /\ InitCall

\* simulate, lines 49-52: exactly one of the two paths is entered.
Simulate ==
    /\ pc = "simulate"
    /\ backend' = IF UseQuantum(qiskit, num_qubits) THEN "quantum" ELSE "classical"
    /\ pc' = "draw"
    /\ UNCHANGED <<params, lists, photons, sifting, metrics, error, rng_draws,
                   calls, prev>>

\* Lines 57-64 and 128-135: Alice's bits and bases, Bob's bases, empty lists.
DrawLists ==
    /\ pc = "draw"
    /\ alice_bits' \in ListsOf(Bits, num_qubits)
    /\ alice_bases' \in ListsOf(Bases, num_qubits)
    /\ bob_bases' \in ListsOf(Bases, num_qubits)
    /\ eve_interceptions' = <<>> /\ eve_bits' = <<>> /\ eve_bases' = <<>>
    /\ bob_bits' = <<>>
    /\ rng_draws' = rng_draws + 3 * RangeLen(num_qubits)
    /\ pc' = "loop"
    /\ UNCHANGED <<params, backend, sifting, metrics, error, calls, prev>>

\* Mutant: the else branch that appends None to eve_bits is missing.
RecordWithoutNone(o) ==
    /\ eve_interceptions' = Append(eve_interceptions, o.icpt)
    /\ eve_bases' = Append(eve_bases, o.ebasis)
    /\ eve_bits' = IF o.icpt THEN Append(eve_bits, o.ebit) ELSE eve_bits
    /\ bob_bits' = Append(bob_bits, o.bbit)

\* The append of one iteration's outcome o, lines 79-107/120 and 140-171.
Record(o) ==
    /\ eve_interceptions' = Append(eve_interceptions, o.icpt)
    /\ eve_bases' = Append(eve_bases, o.ebasis)
    /\ eve_bits' = Append(eve_bits, o.ebit)
    /\ bob_bits' = Append(bob_bits, o.bbit)

\* One iteration of for i in range(num_qubits), lines 66-120.
QuantumStep ==
    /\ pc = "loop" /\ backend = "quantum"
    /\ Len(bob_bits) < RangeLen(num_qubits)
    /\ LET i == Len(bob_bits) + 1
       IN  \E o \in QuantumPhoton(alice_bits[i], alice_bases[i], bob_bases[i],
                                  include_eve, EveRate(eve_pct), noise_level) :
              /\ Record(o)
              /\ rng_draws' = rng_draws + QuantumDraws(o, include_eve)
    /\ UNCHANGED <<params, pc, backend, lists, sifting, metrics, error, calls,
                   prev>>

\* One iteration of for i in range(num_qubits), lines 137-171.
ClassicalStep ==
    /\ pc = "loop" /\ backend = "classical"
    /\ Len(bob_bits) < RangeLen(num_qubits)
    /\ LET i == Len(bob_bits) + 1
       IN  \E o \in ClassicalPhoton(alice_bits[i], alice_bases[i], bob_bases[i],
                                    include_eve, EveRate(eve_pct), noise_level) :
              /\ Record(o)
              /\ rng_draws' = rng_draws
                     + ClassicalDraws(o, alice_bases[i], bob_bases[i], include_eve)
    /\ UNCHANGED <<params, pc, backend, lists, sifting, metrics, error, calls,
                   prev>>

\* Lines 195-213: the metrics and the returned BB84Result.  The division of
\* line 196 raises ZeroDivisionError when alice_bits is empty, after
\* error_rate was computed and before _calculate_fidelity is called.
Finish(key, errors, matching, mbases) ==
    /\ error_rate' = ErrorRate(errors, matching)
    /\ IF Len(alice_bits) = 0
       THEN /\ pc' = "raised"
            /\ error' = "ZeroDivisionError"
            /\ UNCHANGED <<transmission_efficiency, quantum_fidelity>>
       ELSE /\ transmission_efficiency' = Frac(Len(key), Len(alice_bits))
            /\ quantum_fidelity' = CalculateFidelity(alice_bits, bob_bits, mbases)
            /\ pc' = "returned"
            /\ error' = error

\* The photon loop is over and _process_results runs to its end,
\* lines 122-123/173-174 and 176-213.
ProcessResults ==
    /\ pc = "loop"
    /\ Len(bob_bits) = RangeLen(num_qubits)
    /\ \E mbases \in {MatchingBases(alice_bases, bob_bases)} :
       \E s \in {SiftLoop(alice_bits, bob_bits, mbases, Len(mbases))} :
           /\ matching_bases' = mbases
           /\ final_key' = s.final_key
           /\ matching_count' = s.matching_count
           /\ error_count' = s.error_count
           /\ idx' = Len(mbases)
           /\ Finish(s.final_key, s.error_count, s.matching_count, mbases)
    /\ UNCHANGED <<params, backend, lists, photons, rng_draws, calls, prev>>

(***************************************************************************)
(* _process_results one iteration at a time, for the properties of its     *)
(* loop.                                                                   *)
(***************************************************************************)
\* The photon loop is over: _process_results is entered, lines 180-185.
ProcessEntry ==
    /\ pc = "loop"
    /\ Len(bob_bits) = RangeLen(num_qubits)
    /\ matching_bases' = MatchingBases(alice_bases, bob_bases)
    /\ final_key' = SiftStart.final_key
    /\ matching_count' = SiftStart.matching_count
    /\ error_count' = SiftStart.error_count
    /\ idx' = 0
    /\ pc' = "sift"
    /\ UNCHANGED <<params, backend, lists, photons, metrics, error, rng_draws,
                   calls, prev>>

\* One iteration of for i, matches in enumerate(matching_bases), lines 187-193.
SiftStep ==
    /\ pc = "sift"
    /\ idx < Len(matching_bases)
    /\ LET i == idx + 1
           s == SiftIter([final_key |-> final_key,
                          matching_count |-> matching_count,
                          error_count |-> error_count],
                         matching_bases[i], alice_bits[i], bob_bits[i])
       IN  /\ final_key' = s.final_key
           /\ matching_count' = s.matching_count
           /\ error_count' = s.error_count
    /\ idx' = idx + 1
    /\ UNCHANGED <<params, pc, backend, lists, photons, matching_bases, metrics,
                   error, rng_draws, calls, prev>>

\* The loop is over, lines 195-213.
Metrics ==
    /\ pc = "sift"
    /\ idx = Len(matching_bases)
    /\ Finish(final_key, error_count, matching_count, matching_bases)
    /\ UNCHANGED <<params, backend, lists, photons, sifting, rng_draws, calls,
                   prev>>

\* The caller calls simulate again with the same params; the global random
\* module keeps its state, every local starts afresh.
SimulateAgain ==
    /\ pc \in {"returned", "raised"}
    /\ calls < MaxCalls
    /\ calls' = calls + 1
    /\ prev' = IF pc = "returned" THEN <<Result>> ELSE <<>>
    /\ pc' = "simulate"
    /\ backend' = "none"
    /\ alice_bits' = <<>> /\ alice_bases' = <<>> /\ bob_bases' = <<>>
    /\ eve_interceptions' = <<>> /\ eve_bits' = <<>> /\ eve_bases' = <<>>
    /\ bob_bits' = <<>>
    /\ matching_bases' = <<>> /\ final_key' = <<>>
    /\ matching_count' = 0 /\ error_count' = 0 /\ idx' = 0
    /\ error_rate' = Zero /\ transmission_efficiency' = Zero
    /\ quantum_fidelity' = Zero
    /\ error' = "none"
    /\ UNCHANGED <<params, rng_draws>>

Next ==
    \/ Simulate
    \/ DrawLists
    \/ QuantumStep
    \/ ClassicalStep
    \/ ProcessResults

Spec == Init /\ [][Next]_vars

\* Two calls in a row with the same params.
InitRepeat == Init /\ num_qubits <= RepeatQubits

NextRepeat == Next \/ SimulateAgain

SpecRepeat == InitRepeat /\ [][NextRepeat]_vars

\* Calls with Eve at a rate of 50 percent, _process_results taken one
\* iteration at a time.
InitSift ==
    /\ num_qubits \in {-1} \cup (0..MaxQubits)
    /\ include_eve = TRUE
    /\ eve_pct = PercentScale \div 2
    /\ noise_level \in {Zero, Frac(1, 2)}
    /\ qiskit \in BOOLEAN
    /\ InitCall

NextSift ==
    \/ Simulate
    \/ DrawLists
    \/ QuantumStep
    \/ ClassicalStep
    \/ ProcessEntry
    \/ SiftStep
    \/ Metrics

SpecSift == InitSift /\ [][NextSift]_vars

\* Calls without Eve and without noise, up to the size of the scenario of
\* spec section 8 (numQubits = 4).
InitNoEve ==
    /\ num_qubits \in {-1} \cup (0..ScenarioQubits)
    /\ include_eve = FALSE
    /\ eve_pct = DefaultEvePct
    /\ noise_level = Zero
    /\ qiskit \in BOOLEAN
    /\ InitCall

SpecNoEve == InitNoEve /\ [][Next]_vars

\* Calls in which every branch of both photon loops can be taken: Eve at a
\* rate of 50 percent, noise at 0.5.  A call is one thread of control: while
\* it has a next statement, the statement is executed.
InitLive ==
    /\ num_qubits \in {-1} \cup (0..MaxQubits)
    /\ include_eve = TRUE
    /\ eve_pct = PercentScale \div 2
    /\ noise_level = Frac(1, 2)
    /\ qiskit \in BOOLEAN
    /\ InitCall

SpecLive == InitLive /\ [][Next]_vars /\ WF_vars(Next)

\* Calls with numQubits around the limit of line 49, where only the choice of
\* the path is followed, and calls with one photon, followed to the end.
InitDispatch ==
    /\ num_qubits \in {1} \cup ((QubitLimit - DispatchSpan)..(QubitLimit + DispatchSpan))
    /\ include_eve \in BOOLEAN
    /\ eve_pct \in EvePcts
    /\ noise_level \in NoiseLevels
    /\ qiskit \in BOOLEAN
    /\ InitCall

Explored == num_qubits <= MaxQubits

NextDispatch ==
    \/ Simulate
    \/ Explored /\ DrawLists
    \/ Explored /\ QuantumStep
    \/ Explored /\ ClassicalStep
    \/ Explored /\ ProcessResults

SpecDispatch == InitDispatch /\ [][NextDispatch]_vars

(***************************************************************************)
(* Definitions the properties are stated with, computed from the lists     *)
(* and not from the loop's counters.                                       *)
(***************************************************************************)
Returned == pc = "returned"

\* aliceBasis == bobBasis at index k
BasesMatch(k) == alice_bases[k] = bob_bases[k]

SiftedCount == Cardinality({k \in 1..Len(bob_bits) : BasesMatch(k)})

ErrorCount ==
    Cardinality({k \in 1..Len(bob_bits) :
                    BasesMatch(k) /\ alice_bits[k] # bob_bits[k]})

\* alice_bits restricted, in order, to the first n indices whose bases match
RECURSIVE SiftedAliceBits(_)
SiftedAliceBits(n) ==
    IF n = 0 THEN <<>>
    ELSE IF BasesMatch(n)
         THEN Append(SiftedAliceBits(n - 1), alice_bits[n])
         ELSE SiftedAliceBits(n - 1)

\* The basis and the bit of the state that reaches Bob at index k.
SentBasis(k) == IF eve_interceptions[k] THEN eve_bases[k] ELSE alice_bases[k]

SentBit(k) == IF eve_interceptions[k] THEN eve_bits[k] ELSE alice_bits[k]

InUnit(f) == FracLeq(Zero, f) /\ FracLeq(f, One)

(***************************************************************************)
(* C1.  simulate with numQubits == 0 returns a result whose sequences and  *)
(* finalKey are empty and whose three metrics are 0; no error is raised.   *)
(* The code divides by len(alice_bits) == 0 at line 196.                   *)
(***************************************************************************)
C1_ZeroQubitsReturnsEmptyResult ==
    num_qubits = 0 =>
        /\ pc # "raised"
        /\ Returned =>
              /\ alice_bits = <<>> /\ bob_bits = <<>> /\ final_key = <<>>
              /\ FracEq(error_rate, Zero)
              /\ FracEq(transmission_efficiency, Zero)
              /\ FracEq(quantum_fidelity, Zero)

C2_WitnessNoneSifted ==
    Returned /\ SiftedCount = 0

(***************************************************************************)
(* C3.  simulate with numQubits < 0 never returns and ends only by raising *)
(* ValidationError, before any random value is drawn.  The code validates  *)
(* nothing: it runs the empty range and raises ZeroDivisionError.          *)
(***************************************************************************)
C3_NegativeQubitsRaiseValidationError ==
    num_qubits < 0 =>
        /\ ~Returned
        /\ pc = "raised" => error = "ValidationError" /\ rng_draws = 0

(***************************************************************************)
(* C4.  Backend independence: at every photon the Qiskit path and the      *)
(* classical path can append the same outcomes (interception, Eve's basis  *)
(* and bit, Bob's bit), so a noise flip is possible in one iff it is in    *)
(* the other.  The Qiskit path never reads noise_level.                    *)
(***************************************************************************)
C4_BackendsProduceSameOutcomes ==
    (pc = "loop" /\ backend = "quantum"
       /\ Len(bob_bits) < RangeLen(num_qubits)
       /\ num_qubits <= QubitLimit) =>
        LET i == Len(bob_bits) + 1
        IN  QuantumPhoton(alice_bits[i], alice_bases[i], bob_bases[i],
                          include_eve, EveRate(eve_pct), noise_level)
            = ClassicalPhoton(alice_bits[i], alice_bases[i], bob_bases[i],
                              include_eve, EveRate(eve_pct), noise_level)

(***************************************************************************)
(* C5.  Reproducibility: two calls with the same params (any seed the      *)
(* caller puts in them included) return identical results.  simulate reads *)
(* no seed and draws from the process-wide random module, whose state the  *)
(* first call has advanced.                                                *)
(***************************************************************************)
C5_SameParamsSameResult ==
    (calls = 2 /\ Returned /\ prev # <<>>) => prev[1] = Result

(***************************************************************************)
(* C6.  Without Eve and with noiseLevel = 0: at every index with matching  *)
(* bases bobBit == aliceBit; the returned finalKey is aliceBits restricted *)
(* to the matching indices in order, errorRate is 0 and, when a basis      *)
(* matches, quantumFidelity is 1.                                          *)
(***************************************************************************)
C6_NoEveNoNoiseKeyIsSiftedAliceBits ==
    (~include_eve /\ FracEq(noise_level, Zero)) =>
        /\ \A k \in 1..Len(bob_bits) :
              BasesMatch(k) => bob_bits[k] = alice_bits[k]
        /\ Returned =>
              /\ final_key = SiftedAliceBits(Len(alice_bits))
              /\ FracEq(error_rate, Zero)
              /\ SiftedCount > 0 => FracEq(quantum_fidelity, One)

\* The scenario of the claim: finalKey [0,0], transmissionEfficiency 0.5.
C6_Witness ==
    /\ Returned
    /\ ~include_eve /\ FracEq(noise_level, Zero)
    /\ alice_bits = <<0, 1, 0, 1>>
    /\ alice_bases = <<"Z", "Z", "X", "X">>
    /\ bob_bases = <<"Z", "X", "X", "Z">>
    /\ final_key = <<0, 0>>
    /\ FracEq(transmission_efficiency, Frac(1, 2))
    /\ FracEq(quantum_fidelity, One)

(***************************************************************************)
(* C7.  Out-of-range rates act as clamped and raise nothing: with          *)
(* includeEve and eveInterceptionRate > 100 every photon is intercepted,   *)
(* with eveInterceptionRate < 0 none is; noiseLevel > 1 flips every        *)
(* measurement made in the basis of the state measured, noiseLevel < 0     *)
(* flips none.  The Qiskit path never flips (see C4).                      *)
(***************************************************************************)
C7_OutOfRangeRatesActClamped ==
    /\ (num_qubits >= 1 /\ (eve_pct > PercentScale \/ eve_pct < 0
                             \/ Less(One, noise_level) \/ Less(noise_level, Zero)))
          => error = "none"
    /\ \A k \in 1..Len(bob_bits) :
          /\ (include_eve /\ eve_pct > PercentScale) => eve_interceptions[k]
          /\ eve_pct < 0 => ~eve_interceptions[k]
          /\ (Less(One, noise_level) /\ bob_bases[k] = SentBasis(k))
                => bob_bits[k] = 1 - SentBit(k)
          /\ (Less(noise_level, Zero) /\ bob_bases[k] = SentBasis(k))
                => bob_bits[k] = SentBit(k)

(***************************************************************************)
(* C8.  After every iteration of the photon loop and in every result:      *)
(* eveBit and eveBasis are present at an index iff eveInterceptions is     *)
(* true there; with includeEve false no index is intercepted.              *)
(***************************************************************************)
C8_EveFieldsPresentIffIntercepted ==
    /\ Len(eve_interceptions) = Len(bob_bits)
    /\ Len(eve_bits) = Len(bob_bits)
    /\ Len(eve_bases) = Len(bob_bits)
    /\ \A k \in 1..Len(bob_bits) :
          /\ eve_interceptions[k] <=> eve_bits[k] \in Bits
          /\ eve_interceptions[k] <=> eve_bases[k] \in Bases
          /\ ~eve_interceptions[k] <=> eve_bits[k] = NoBit
          /\ ~eve_interceptions[k] <=> eve_bases[k] = "None"
          /\ ~include_eve => ~eve_interceptions[k]

C8_Witness ==
    /\ Returned
    /\ include_eve
    /\ eve_interceptions = <<TRUE, FALSE>>

C8_WitnessNoEve ==
    /\ Returned
    /\ ~include_eve /\ eve_pct > PercentScale
    /\ eve_interceptions = <<FALSE, FALSE>>

(***************************************************************************)
(* C9.  In every returned result the eight per-photon sequences have       *)
(* length numQubits and matchingBases[i] == (aliceBases[i] == bobBases[i]).*)
(***************************************************************************)
C9_SequencesHaveLengthNumQubits ==
    Returned =>
        /\ num_qubits >= 0
        /\ Len(alice_bits) = num_qubits /\ Len(alice_bases) = num_qubits
        /\ Len(bob_bits) = num_qubits /\ Len(bob_bases) = num_qubits
        /\ Len(eve_bits) = num_qubits /\ Len(eve_bases) = num_qubits
        /\ Len(eve_interceptions) = num_qubits
        /\ Len(matching_bases) = num_qubits
        /\ \A k \in 1..Len(matching_bases) : matching_bases[k] <=> BasesMatch(k)

C9_Witness ==
    /\ Returned
    /\ num_qubits = 2
    /\ matching_bases = <<FALSE, TRUE>>

(***************************************************************************)
(* C10.  In every returned result len(finalKey) <= count(matchingBases)    *)
(* <= numQubits, errorRate = errorCount / siftedCount (0 when siftedCount  *)
(* is 0), transmissionEfficiency = len(finalKey) / numQubits, and both     *)
(* metrics lie in [0, 1].                                                  *)
(***************************************************************************)
C10_KeyLengthAndMetricsBounded ==
    Returned =>
        /\ Len(final_key) <= SumTrue(matching_bases)
        /\ SumTrue(matching_bases) <= num_qubits
        /\ error_rate[2] > 0 /\ transmission_efficiency[2] > 0
        /\ IF SiftedCount > 0
           THEN FracEq(error_rate, Frac(ErrorCount, SiftedCount))
           ELSE FracEq(error_rate, Zero)
        /\ FracEq(transmission_efficiency, Frac(Len(final_key), num_qubits))
        /\ InUnit(error_rate)
        /\ InUnit(transmission_efficiency)

C10_Witness ==
    /\ Returned
    /\ num_qubits = 2
    /\ SiftedCount = 2
    /\ ErrorCount = 1
    /\ Len(final_key) = 1

(***************************************************************************)
(* Helpers of the key-extraction claims: the lists restricted to the first *)
(* n indices.                                                              *)
(***************************************************************************)
Kept(k) == BasesMatch(k) /\ alice_bits[k] = bob_bits[k]

\* alice_bits at the kept indices among the first n, in order
RECURSIVE KeptAliceBits(_)
KeptAliceBits(n) ==
    IF n = 0 THEN <<>>
    ELSE IF Kept(n)
         THEN Append(KeptAliceBits(n - 1), alice_bits[n])
         ELSE KeptAliceBits(n - 1)

SiftedUpTo(n) == Cardinality({k \in 1..n : BasesMatch(k)})

ErrorsUpTo(n) ==
    Cardinality({k \in 1..n : BasesMatch(k) /\ alice_bits[k] # bob_bits[k]})

InSifting == pc = "sift" \/ Returned

(***************************************************************************)
(* C11.  Key extraction: after the first idx indices have been processed,  *)
(* final_key is the in-order subsequence of alice_bits at the indices with *)
(* equal bases and equal bits, error_count is the number of indices with   *)
(* equal bases and differing bits, and matching_count is the number of     *)
(* indices with equal bases; an index with differing bases therefore adds  *)
(* to none of the three, whatever its bits are.                            *)
(***************************************************************************)
C11_KeyIsKeptAliceBits ==
    InSifting =>
        /\ final_key = KeptAliceBits(idx)
        /\ error_count = ErrorsUpTo(idx)
        /\ matching_count = SiftedUpTo(idx)

\* index 1: equal bases, differing bits; index 2: equal bases, equal bits
C11_Witness ==
    /\ Returned
    /\ idx = 2
    /\ BasesMatch(1) /\ alice_bits[1] # bob_bits[1]
    /\ Kept(2)
    /\ final_key = <<alice_bits[2]>>
    /\ error_count = 1

\* index 1: differing bases and differing bits, processed and left out
C11_WitnessDifferingBases ==
    /\ pc = "sift"
    /\ idx = 1
    /\ ~BasesMatch(1) /\ alice_bits[1] # bob_bits[1]
    /\ final_key = <<>> /\ error_count = 0 /\ matching_count = 0

(***************************************************************************)
(* C12.  Backend selection: once simulate has dispatched, the Qiskit path  *)
(* is the one entered iff Qiskit is available and numQubits <= 50, the     *)
(* classical path is the one entered iff Qiskit is unavailable or          *)
(* numQubits >= 51, and exactly one of the two is entered; before the      *)
(* dispatch neither is.                                                    *)
(***************************************************************************)
C12_BackendSelection ==
    IF pc = "simulate"
    THEN backend = "none"
    ELSE /\ backend \in {"quantum", "classical"}
         /\ backend = "quantum" <=> (qiskit /\ num_qubits <= 50)
         /\ backend = "classical" <=> (~qiskit \/ num_qubits >= 51)

\* numQubits = 50 with Qiskit available takes the Qiskit path
C12_Witness ==
    /\ pc = "draw"
    /\ qiskit
    /\ num_qubits = 50
    /\ backend = "quantum"

\* numQubits = 51 with Qiskit available takes the classical path
C12_WitnessAboveLimit ==
    /\ pc = "draw"
    /\ qiskit
    /\ num_qubits = 51
    /\ backend = "classical"

\* a call without Qiskit that has run the classical path to its result
C12_WitnessUnavailable ==
    /\ Returned
    /\ ~qiskit
    /\ backend = "classical"
    /\ Len(bob_bits) = num_qubits

(***************************************************************************)
(* Helpers of the eavesdropping claims.                                    *)
(***************************************************************************)
NoNoise == FracEq(noise_level, Zero)

\* The photon loop is about to process an index.
AtPhoton == pc = "loop" /\ Len(bob_bits) < RangeLen(num_qubits)

\* Every outcome the next iteration of the running path can append.
NextPhoton ==
    LET i == Len(bob_bits) + 1
    IN  IF backend = "quantum"
        THEN QuantumPhoton(alice_bits[i], alice_bases[i], bob_bases[i],
                           include_eve, EveRate(eve_pct), noise_level)
        ELSE ClassicalPhoton(alice_bits[i], alice_bases[i], bob_bases[i],
                             include_eve, EveRate(eve_pct), noise_level)

\* a sifted error at index k
SiftedError(k) == BasesMatch(k) /\ bob_bits[k] # alice_bits[k]

(***************************************************************************)
(* C13.  With noiseLevel = 0 eavesdropping is the only source of sifted    *)
(* errors: at every processed index with equal bases and bobBit differing  *)
(* from aliceBit, Eve intercepted with a basis other than Alice's; an      *)
(* interception in Alice's basis reads aliceBit and leaves no sifted       *)
(* error, and neither does a photon that was not intercepted; and when the *)
(* next photon has equal bases, an interception in the other basis can     *)
(* give bobBit == aliceBit and can give bobBit # aliceBit.                 *)
(***************************************************************************)
C13_OnlyEveCausesSiftedErrors ==
    NoNoise =>
        /\ \A k \in 1..Len(bob_bits) :
              /\ SiftedError(k) =>
                    eve_interceptions[k] /\ eve_bases[k] # alice_bases[k]
              /\ ~eve_interceptions[k] => ~SiftedError(k)
              /\ (eve_interceptions[k] /\ eve_bases[k] = alice_bases[k]) =>
                    eve_bits[k] = alice_bits[k] /\ ~SiftedError(k)
        /\ (AtPhoton /\ BasesMatch(Len(bob_bits) + 1)) =>
              \A b \in Bits :
                 \E o \in NextPhoton :
                    /\ o.icpt
                    /\ o.ebasis # alice_bases[Len(bob_bits) + 1]
                    /\ o.bbit = b

\* an interception in the other basis that left a sifted error
C13_Witness ==
    /\ Returned
    /\ NoNoise
    /\ num_qubits = 2
    /\ SiftedError(2)
    /\ eve_interceptions[2]
    /\ eve_bases[2] # alice_bases[2]
    /\ ~SiftedError(1)

\* an interception in the other basis that left no error
C13_WitnessUndetected ==
    /\ Returned
    /\ NoNoise
    /\ BasesMatch(1)
    /\ eve_interceptions[1]
    /\ eve_bases[1] # alice_bases[1]
    /\ bob_bits[1] = alice_bits[1]

(***************************************************************************)
(* C14.  Prepare (Alice), Intercept (Eve), Measure (Bob), in that order:   *)
(* with noiseLevel = 0, at every processed index that Eve intercepted, Bob *)
(* measuring in Eve's basis reads eveBit, also where eveBit differs from   *)
(* aliceBit, so he measures the state prepared from (eveBit, eveBasis) and *)
(* not Alice's; and Eve measuring in Alice's basis reads aliceBit whatever *)
(* Bob's basis is, so she measures Alice's state before Bob's basis is     *)
(* applied.                                                                *)
(***************************************************************************)
C14_BobMeasuresWhatEveResent ==
    NoNoise =>
        \A k \in 1..Len(bob_bits) :
           eve_interceptions[k] =>
              /\ bob_bases[k] = eve_bases[k] => bob_bits[k] = eve_bits[k]
              /\ eve_bases[k] = alice_bases[k] => eve_bits[k] = alice_bits[k]

\* Bob reads Eve's bit, which is not Alice's
C14_Witness ==
    /\ NoNoise
    /\ Len(bob_bits) >= 1
    /\ eve_interceptions[1]
    /\ bob_bases[1] = eve_bases[1]
    /\ eve_bits[1] # alice_bits[1]
    /\ bob_bits[1] = eve_bits[1]

\* Eve reads Alice's bit in Alice's basis while Bob's basis is the other one
C14_WitnessEveFirst ==
    /\ NoNoise
    /\ Len(bob_bits) >= 1
    /\ eve_interceptions[1]
    /\ eve_bases[1] = alice_bases[1]
    /\ bob_bases[1] # alice_bases[1]
    /\ eve_bits[1] = alice_bits[1]
    /\ bob_bits[1] # alice_bits[1]

(***************************************************************************)
(* Helpers of the termination claim.                                       *)
(***************************************************************************)
\* t is s with exactly one element appended
GrowsByOne(s, t) == Len(t) = Len(s) + 1 /\ SubSeq(t, 1, Len(s)) = s

\* A step of the photon loop processes the index after the last processed
\* one: every per-photon list gets one more entry and keeps the others.
ProcessesNextIndex ==
    /\ GrowsByOne(bob_bits, bob_bits')
    /\ GrowsByOne(eve_interceptions, eve_interceptions')
    /\ GrowsByOne(eve_bases, eve_bases')
    /\ GrowsByOne(eve_bits, eve_bits')
    /\ Len(bob_bits') <= num_qubits
    /\ UNCHANGED <<alice_bits, alice_bases, bob_bases>>

(***************************************************************************)
(* C15.  Every call with numQubits = N >= 1 eventually returns; each step  *)
(* it takes inside the photon loop processes the index after the last      *)
(* processed one and leaves the earlier entries alone, the loop is left    *)
(* only when N indices have been processed, so each of 0..N-1 is processed *)
(* exactly once and in order; and nothing follows the return, so there is  *)
(* exactly one result.                                                     *)
(***************************************************************************)
C15_TerminatesAfterEachPhotonOnce ==
    /\ (num_qubits >= 1) ~> Returned
    /\ [][(num_qubits >= 1 /\ pc = "loop" /\ pc' = "loop") =>
             ProcessesNextIndex]_vars
    /\ [][(num_qubits >= 1 /\ pc = "loop" /\ pc' # "loop") =>
             (Len(bob_bits) = num_qubits /\ UNCHANGED <<lists, photons>>)]_vars
    /\ [][~Returned]_vars
    /\ [](Returned => Len(bob_bits) = num_qubits)

\* a call with two photons that has returned
C15_Witness ==
    /\ Returned
    /\ num_qubits = 2
    /\ Len(bob_bits) = 2
    /\ Len(eve_interceptions) = 2

(***************************************************************************)
(* Helpers of the loop invariant.                                          *)
(***************************************************************************)
\* the kept indices among the first n, in order
RECURSIVE KeptIndices(_)
KeptIndices(n) ==
    IF n = 0 THEN <<>>
    ELSE IF Kept(n)
         THEN Append(KeptIndices(n - 1), n)
         ELSE KeptIndices(n - 1)

(***************************************************************************)
(* C16.  Sifting-loop invariant: on entry to the key-extraction loop and   *)
(* after each of its iterations, len(final_key) + error_count ==           *)
(* matching_count; and final_key is shared: it has one entry per kept      *)
(* index among those processed, and the entry equals both alice_bits and   *)
(* bob_bits at that index.                                                 *)
(***************************************************************************)
C16_SiftingLoopInvariant ==
    InSifting =>
        /\ Len(final_key) + error_count = matching_count
        /\ Len(final_key) = Len(KeptIndices(idx))
        /\ \A j \in 1..Len(final_key) :
              /\ final_key[j] = alice_bits[KeptIndices(idx)[j]]
              /\ final_key[j] = bob_bits[KeptIndices(idx)[j]]

\* after the second iteration, inside _process_results: one bit kept and one
\* error counted
C16_Witness ==
    /\ pc = "sift"
    /\ idx = 2
    /\ Len(matching_bases) = 2
    /\ Len(final_key) = 1
    /\ error_count = 1
    /\ matching_count = 2

====
